---------------------------- MODULE Spec2Model ----------------------------
(***************************************************************************)
(* LegalEase: the REST handlers of server/routes.ts over the relational    *)
(* store of server/storage.ts (DatabaseStorage) and shared/schema.ts.      *)
(*                                                                         *)
(* A handler is a sequence of awaited storage calls.  Each storage call is *)
(* one auto-committed SQL statement; the code between two awaits runs      *)
(* without interruption.  A request in flight therefore advances one       *)
(* storage call per step, and steps of different requests interleave.      *)
(* A storage call rejects when the statement violates a column or          *)
(* foreign-key constraint of the schema, or when the datastore is          *)
(* unavailable (ok = FALSE); the handler's catch block then answers 500.   *)
(***************************************************************************)
EXTENDS Integers, Sequences, FiniteSets, Bags, TLC

VARIABLES
    addresses,      \* table addresses
    orgs,           \* table orgs
    people,         \* table people
    personOnOrgs,   \* table person_on_orgs
    shareClasses,   \* table share_classes
    shareIssuances, \* table share_issuances
    shareTransfers, \* table share_transfers
    auditLogs,      \* table audit_logs
    nextId,         \* the next value of gen_random_uuid(), per table
    clock,          \* the next value of new Date() / defaultNow()
    inflight,       \* requests between two awaits
    nCalls,         \* number of requests received
    resp,           \* the response sent last
    okLog,          \* history: the bag of requests answered with a 2xx status
    listing,        \* the body of the last answer to GET /api/orgs/:orgId/people
    templates,      \* table templates
    generatedDocs,  \* table generated_docs
    orgList,        \* the body of the last answer to GET /api/orgs
    deleteResult,   \* the outcome of the last call of storage.deleteOrg
    currentEntity,  \* EntityProvider: the state currentEntity
    recentEntities  \* EntityProvider: the state recentEntities

tables == <<addresses, orgs, people, personOnOrgs, shareClasses,
            shareIssuances, shareTransfers, auditLogs, templates, generatedDocs>>
\* What no step of a mutating handler touches.
aside == <<orgList, deleteResult, currentEntity, recentEntities>>
vars == <<addresses, orgs, people, personOnOrgs, shareClasses,
          shareIssuances, shareTransfers, auditLogs, templates, generatedDocs,
          nextId, clock, inflight, nCalls, resp, okLog, listing,
          orgList, deleteResult, currentEntity, recentEntities>>

(***************************************************************************)
(* Bounds                                                                  *)
(***************************************************************************)
MaxCalls == 2       \* requests received and deleteOrg calls in one behaviour
MaxInflight == 2    \* requests in flight at the same time
MaxQty == 2         \* largest share quantity of a request
MaxEntities == 6    \* organizations the user of the client can open

(***************************************************************************)
(* Values                                                                  *)
(***************************************************************************)
NULL == 0                   \* SQL NULL / undefined, for ids, numbers and dates
NONE == ""                  \* undefined, for text
GhostId == NULL - 1         \* an id that no row has
DevUser == "test-user-123"  \* the hardcoded development user
Callers == {"u1"}           \* req.user.claims.sub of authenticated requests
users == Callers \cup {DevUser}   \* table users (filled by the auth layer)

Ids(table) == {r.id : r \in table}

\* A foreign key column: NULL or the id of a row of the referenced table.
FkOk(v, table) == v = NULL \/ v \in Ids(table)


(***************************************************************************)
(* Schema (shared/schema.ts): the constraints a row must meet to be        *)
(* inserted.  notNull() columns reject NULL, references() columns reject   *)
(* an id that is not in the referenced table.  No table declares a unique  *)
(* or check constraint besides its primary key.                            *)
(***************************************************************************)
addressesOk(a) ==
    /\ a.line1 # NONE /\ a.city # NONE /\ a.region # NONE
    /\ a.country # NONE /\ a.postal # NONE

orgsOk(o) ==
    /\ o.name # NONE /\ o.jurisdiction # NONE
    /\ FkOk(o.registeredOfficeId, addresses)
    /\ FkOk(o.recordsOfficeId, addresses)
    /\ FkOk(o.mailingAddressId, addresses)
    /\ FkOk(o.authRepAddressId, addresses)
    /\ o.createdById \in users

peopleOk(p) ==
    /\ p.firstName # NONE /\ p.lastName # NONE
    /\ FkOk(p.addressId, addresses)

personOnOrgsOk(r) ==
    /\ r.orgId \in Ids(orgs)
    /\ r.personId \in Ids(people)
    /\ r.role # NONE

shareClassesOk(c) ==
    /\ c.orgId \in Ids(orgs)
    /\ c.name # NONE /\ c.shortCode # NONE

shareIssuancesOk(i) ==
    /\ i.orgId \in Ids(orgs)
    /\ i.shareholderType # NONE
    /\ FkOk(i.shareholderId, people)
    /\ FkOk(i.entityShareholderId, orgs)
    /\ i.shareClassId \in Ids(shareClasses)
    /\ i.quantity # NULL
    /\ i.certNumber # NONE
    /\ i.issueDate # NULL

shareTransfersOk(t) ==
    /\ t.orgId \in Ids(orgs)
    /\ FkOk(t.fromPersonId, people)
    /\ t.toPersonId \in Ids(people)
    /\ t.shareClassId \in Ids(shareClasses)
    /\ t.quantity # NULL
    /\ t.transferDate # NULL

auditLogsOk(l) ==
    /\ FkOk(l.orgId, orgs)
    /\ l.actorId \in users
    /\ l.action # NONE

templatesOk_nullable(t) ==
    /\ t.name # NONE /\ t.code # NONE /\ t.scope # NONE
    /\ t.ownerId \in users

templatesOk(t) ==
    /\ t.name # NONE /\ t.code # NONE /\ t.scope # NONE
    /\ t.fileKey # NONE
    /\ t.ownerId \in users

generatedDocsOk(d) ==
    /\ d.orgId \in Ids(orgs)
    /\ d.templateId \in Ids(templates)
    /\ d.fileKey # NONE
    /\ d.createdBy \in users

(***************************************************************************)
(* DatabaseStorage (server/storage.ts): every create method is one         *)
(* INSERT ... RETURNING; the row gets a fresh id.  The operators give the  *)
(* table after the insert.                                                 *)
(***************************************************************************)
\* gen_random_uuid(): ids are unique within a table, and the code compares an
\* id only with ids of the same table.
WithId(table, row) == [id |-> nextId[table]] @@ row

NewId(table) == [nextId EXCEPT ![table] = @ + 1]

createAddress(address) == addresses \cup {WithId("addresses", address)}
createOrg(org) == orgs \cup {WithId("orgs", org @@ [updatedAt |-> clock])}
createPerson(person) == people \cup {WithId("people", person)}
createPersonOnOrg(relation) == personOnOrgs \cup {WithId("personOnOrgs", relation)}
createShareClass(shareClass) == shareClasses \cup {WithId("shareClasses", shareClass)}
createShareIssuance(issuance) == shareIssuances \cup {WithId("shareIssuances", issuance)}
createShareTransfer(transfer) == shareTransfers \cup {WithId("shareTransfers", transfer)}

createTemplate(template) == templates \cup {WithId("templates", template)}
createGeneratedDoc(doc) == generatedDocs \cup {WithId("generatedDocs", doc)}

\* getTemplates: SELECT * FROM templates
getTemplates == templates

createAuditLog_replacing(log) == {WithId("auditLogs", log)}
createAuditLog_dropped(log) == auditLogs
createAuditLog(log) == auditLogs \cup {WithId("auditLogs", log)}

\* deleteOrg: DELETE FROM orgs WHERE id = id.  The foreign keys to orgs.id
\* have no ON DELETE rule, so the statement is rejected while a row refers
\* to the organization.
ReferencesOrg(id) ==
    \/ \E x \in personOnOrgs : x.orgId = id
    \/ \E c \in shareClasses : c.orgId = id
    \/ \E i \in shareIssuances : i.orgId = id \/ i.entityShareholderId = id
    \/ \E t \in shareTransfers : t.orgId = id
    \/ \E l \in auditLogs : l.orgId = id
    \/ \E d \in generatedDocs : d.orgId = id

deleteOrg(id) == {o \in orgs : o.id # id}

\* updateOrg: UPDATE orgs SET ...updates, updatedAt = now WHERE id = id.
updateOrg(id, updates) ==
    {IF o.id = id THEN updates @@ [updatedAt |-> clock] @@ o ELSE o : o \in orgs}

(***************************************************************************)
(* Initial states: the empty database, and a database that earlier         *)
(* requests have filled with two organizations, a share class, two people  *)
(* and an issuance of MaxQty shares in organization 1; person 1 also has   *)
(* a role in organization 2, written by createPersonOnOrg.                 *)
(***************************************************************************)
NoResp == [status |-> 0]

NoListing == [orgId |-> NULL, rows |-> EmptyBag]

TableNames == {"addresses", "orgs", "people", "personOnOrgs", "shareClasses",
               "shareIssuances", "shareTransfers", "auditLogs", "templates",
               "generatedDocs"}

\* No call of storage.deleteOrg yet.
NoDelete == [id |-> NULL, ok |-> FALSE]

\* The client and the answers before the first request: useState(null),
\* useState([]).
InitAside ==
    /\ orgList = <<>> /\ deleteResult = NoDelete
    /\ currentEntity = <<>> /\ recentEntities = <<>>

SeedOrg(id, name) ==
    [id |-> id, name |-> name, jurisdiction |-> "DE",
     registeredOfficeId |-> NULL, recordsOfficeId |-> NULL,
     mailingAddressId |-> NULL, authRepAddressId |-> NULL,
     createdById |-> DevUser, updatedAt |-> id]

SeedAudit(id, orgId, actorId, action, ref) ==
    [id |-> id, orgId |-> orgId, actorId |-> actorId, action |-> action, ref |-> ref]

\* A successful request as the history keeps it: the organization and the
\* action it is to be audited under, and the row it is about.
Call(route, orgId, ref) == [route |-> route, orgId |-> orgId, ref |-> ref]

InitEmpty ==
    /\ addresses = {} /\ orgs = {} /\ people = {} /\ personOnOrgs = {}
    /\ shareClasses = {} /\ shareIssuances = {} /\ shareTransfers = {}
    /\ auditLogs = {} /\ templates = {} /\ generatedDocs = {}
    /\ InitAside
    /\ nextId = [t \in TableNames |-> 1] /\ clock = 1
    /\ inflight = {} /\ nCalls = 0 /\ resp = NoResp /\ okLog = EmptyBag
    /\ listing = NoListing

Seeded(uploaded) ==
    /\ addresses = {}
    /\ templates = uploaded /\ generatedDocs = {}
    /\ InitAside
    /\ orgs = {SeedOrg(1, "Acme"), SeedOrg(2, "Beta")}
    /\ shareClasses =
         {[id |-> 1, orgId |-> 1, name |-> "Class A", shortCode |-> "A"]}
    /\ people =
         {[id |-> 1, firstName |-> "Pat", lastName |-> "P", addressId |-> NULL],
          [id |-> 2, firstName |-> "Quinn", lastName |-> "Q", addressId |-> NULL]}
    /\ personOnOrgs =
         {[id |-> 1, orgId |-> 1, personId |-> 1, role |-> "Shareholder", startDate |-> NULL],
          [id |-> 2, orgId |-> 1, personId |-> 2, role |-> "Director", startDate |-> NULL],
          [id |-> 3, orgId |-> 2, personId |-> 1, role |-> "Director", startDate |-> NULL]}
    /\ shareIssuances =
         {[id |-> 1, orgId |-> 1, shareholderType |-> "person", shareholderId |-> 1,
           entityShareholderId |-> NULL, shareClassId |-> 1, quantity |-> MaxQty,
           certNumber |-> "C1", issueDate |-> 1]}
    /\ shareTransfers = {}
    /\ auditLogs =
         {SeedAudit(1, 1, DevUser, "CREATE_ORG", 1),
          SeedAudit(2, 2, DevUser, "CREATE_ORG", 2),
          SeedAudit(3, 1, "u1", "CREATE_SHARE_CLASS", 1),
          SeedAudit(4, 1, "u1", "ADD_PERSON", 1),
          SeedAudit(5, 1, "u1", "ADD_PERSON", 2),
          SeedAudit(6, 1, "u1", "ISSUE_SHARES", 1)}
         \cup {SeedAudit(6 + t.id, NULL, "u1", "CREATE_TEMPLATE", t.id) : t \in uploaded}
    /\ nextId = [addresses |-> 1, orgs |-> 3, people |-> 3, personOnOrgs |-> 4,
                 shareClasses |-> 2, shareIssuances |-> 2, shareTransfers |-> 1,
                 auditLogs |-> 7 + Cardinality(uploaded),
                 templates |-> 1 + Cardinality(uploaded), generatedDocs |-> 1]
    /\ clock = 3
    /\ inflight = {} /\ nCalls = 0 /\ resp = NoResp /\ listing = NoListing
    /\ okLog = SetToBag(
         {Call("orgs", 1, 1), Call("orgs", 2, 2),
          Call("share-classes", 1, 1),
          Call("people", 1, 1), Call("people", 1, 2),
          Call("issuances", 1, 1)}
         \cup {Call("templates", NULL, t.id) : t \in uploaded})

InitSeeded == Seeded({})

Init == InitEmpty \/ InitSeeded

(***************************************************************************)
(* Requests.  A request in flight remembers its path parameter, the        *)
(* authenticated caller, its body, its position (pc: "start" when it was   *)
(* received, then the storage call it awaits) and the locals of its        *)
(* handler: the id of the primary row it created (row), the index of the   *)
(* next role (k) and the address ids it collected (loc).                   *)
(***************************************************************************)
NoLoc == [registeredOfficeId |-> NULL, recordsOfficeId |-> NULL,
          mailingAddressId |-> NULL, authRepAddressId |-> NULL,
          addressId |-> NULL, people |-> EmptyBag, templateId |-> NULL]

\* Requests in flight are told apart by a connection number.
FreeSlot == CHOOSE n \in 1..(MaxInflight + 1) :
                /\ \A r \in inflight : r.n # n
                /\ \A m \in 1..(n - 1) : \E r \in inflight : r.n = m

\* A request arrives.
Receive(route, orgId, caller, body) ==
    /\ nCalls < MaxCalls /\ Cardinality(inflight) < MaxInflight
    /\ inflight' = inflight \cup
         {[n |-> FreeSlot, route |-> route, orgId |-> orgId, caller |-> caller,
           body |-> body, pc |-> "start", row |-> NULL, k |-> 1, loc |-> NoLoc]}
    /\ nCalls' = nCalls + 1
    /\ UNCHANGED <<tables, nextId, clock, resp, okLog, listing, aside>>

\* The outcome of a storage call as far as the datastore's availability
\* goes: TRUE when the statement is executed, FALSE when the call rejects.
Outcomes == BOOLEAN

\* The handler goes on to its next await.
Continue(r, next) ==
    /\ inflight' = (inflight \ {r}) \cup {next}
    /\ UNCHANGED <<nCalls, resp, okLog, listing, aside>>

\* The handler answers with an error status and changes no table in this
\* step: catch (error) { res.status(500) }, or an early return.
Fail(r, status) ==
    /\ inflight' = inflight \ {r}
    /\ resp' = [status |-> status]
    /\ UNCHANGED <<tables, nextId, clock, nCalls, okLog, listing, aside>>

\* The organization a request is about: the path parameter, or the
\* organization made by POST /api/orgs.
CallOrg(r) == IF r.route = "orgs" THEN r.row ELSE r.orgId

\* res.status(2xx).json(...)
Succeed(r, status) ==
    /\ inflight' = inflight \ {r}
    /\ resp' = [status |-> status]
    /\ okLog' = okLog (+) SetToBag({Call(r.route, CallOrg(r), r.row)})
    /\ UNCHANGED <<nCalls, listing, aside>>

\* await storage.createAuditLog({orgId, actorId, action, payload}) followed
\* by the response: the last step of every mutating handler.
AuditAndRespond(r, ok, orgId, actorId, action, status) ==
    LET log == [orgId |-> orgId, actorId |-> actorId, action |-> action,
                ref |-> r.row]
    IN  IF ok /\ auditLogsOk(log)
        THEN /\ auditLogs' = createAuditLog(log)
             /\ nextId' = NewId("auditLogs")
             /\ Succeed(r, status)
             /\ UNCHANGED <<addresses, orgs, people, personOnOrgs, shareClasses,
                            shareIssuances, shareTransfers, clock, templates, generatedDocs>>
        ELSE Fail(r, 500)

\* The path parameter :orgId (an existing organization or none).
OrgPaths == Ids(orgs) \cup {GhostId}

\* Requests under an existing organization with any of the bodies, and under
\* no organization with one of them.
Inputs(bodies, anyBody) ==
    (Ids(orgs) \X bodies) \cup {<<GhostId, anyBody>>}

At(r, route, pc) == r.route = route /\ r.pc = pc

(***************************************************************************)
(* POST /api/orgs                                                          *)
(***************************************************************************)
Addr(line1, city) ==
    [line1 |-> line1, city |-> city, region |-> "DE", country |-> "US",
     postal |-> "19901"]

OrgBody(name, jurisdiction, registeredOffice, recordsOffice, mailingAddress, authRepAddress) ==
    [name |-> name, jurisdiction |-> jurisdiction,
     registeredOffice |-> registeredOffice, recordsOffice |-> recordsOffice,
     mailingAddress |-> mailingAddress, authRepAddress |-> authRepAddress]

\* An optional sub-object of a body is a sequence of length 0 or 1.
Present(x) == x # <<>>

\* insertOrgSchema.parse({...body, createdById}): unknown keys are stripped,
\* name and jurisdiction are required.
insertOrgSchemaOk(body) == body.name # NONE /\ body.jurisdiction # NONE

\* The storage call a POST /api/orgs handler makes next.
PostOrgs_pc(r) ==
    IF r.pc = "start"
    THEN IF ~ insertOrgSchemaOk(r.body) THEN "throw"
         ELSE IF Present(r.body.registeredOffice) THEN "registeredOffice"
         ELSE IF Present(r.body.recordsOffice) THEN "recordsOffice"
         ELSE "createOrg"
    ELSE r.pc

PostOrgs(bodies) ==
    \E caller \in Callers, body \in bodies :
        Receive("orgs", NULL, caller, body)

PostOrgs_throw ==
    \E r \in inflight :
        /\ r.route = "orgs" /\ PostOrgs_pc(r) = "throw"
        /\ Fail(r, 500)

PostOrgs_registeredOffice ==
    \E r \in inflight, ok \in Outcomes :
        /\ r.route = "orgs" /\ PostOrgs_pc(r) = "registeredOffice"
        /\ IF ok /\ addressesOk(r.body.registeredOffice[1])
           THEN /\ addresses' = createAddress(r.body.registeredOffice[1])
                /\ nextId' = NewId("addresses")
                /\ Continue(r, [r EXCEPT
                      !.loc.registeredOfficeId = nextId.addresses,
                      !.pc = IF Present(r.body.recordsOffice)
                             THEN "recordsOffice" ELSE "createOrg"])
                /\ UNCHANGED <<orgs, people, personOnOrgs, shareClasses,
                               shareIssuances, shareTransfers, auditLogs, clock, templates, generatedDocs>>
           ELSE Fail(r, 500)

PostOrgs_recordsOffice ==
    \E r \in inflight, ok \in Outcomes :
        /\ r.route = "orgs" /\ PostOrgs_pc(r) = "recordsOffice"
        /\ IF ok /\ addressesOk(r.body.recordsOffice[1])
           THEN /\ addresses' = createAddress(r.body.recordsOffice[1])
                /\ nextId' = NewId("addresses")
                /\ Continue(r, [r EXCEPT !.loc.recordsOfficeId = nextId.addresses,
                                         !.pc = "createOrg"])
                /\ UNCHANGED <<orgs, people, personOnOrgs, shareClasses,
                               shareIssuances, shareTransfers, auditLogs, clock, templates, generatedDocs>>
           ELSE Fail(r, 500)

\* orgData: the parsed body with the address ids the handler has set.
OrgData(r) ==
    [name |-> r.body.name, jurisdiction |-> r.body.jurisdiction,
     registeredOfficeId |-> r.loc.registeredOfficeId,
     recordsOfficeId |-> r.loc.recordsOfficeId,
     mailingAddressId |-> NULL, authRepAddressId |-> NULL,
     createdById |-> DevUser]

PostOrgs_createOrg ==
    \E r \in inflight, ok \in Outcomes :
        /\ r.route = "orgs" /\ PostOrgs_pc(r) = "createOrg"
        /\ IF ok /\ orgsOk(OrgData(r))
           THEN /\ orgs' = createOrg(OrgData(r))
                /\ nextId' = NewId("orgs")
                /\ clock' = clock + 1
                /\ Continue(r, [r EXCEPT !.pc = "createAuditLog", !.row = nextId.orgs])
                /\ UNCHANGED <<addresses, people, personOnOrgs, shareClasses,
                               shareIssuances, shareTransfers, auditLogs, templates, generatedDocs>>
           ELSE Fail(r, 500)

PostOrgs_audit ==
    \E r \in inflight, ok \in Outcomes :
        /\ At(r, "orgs", "createAuditLog")
        /\ AuditAndRespond(r, ok, r.row, DevUser, "CREATE_ORG", 201)

(***************************************************************************)
(* PUT /api/orgs/:id                                                       *)
(***************************************************************************)
\* if (processedBody.x && processedBody.x.line1)
HasLine1(x) == Present(x) /\ x[1].line1 # NONE

PutOrgs_after(r, slot) ==
    IF slot < 1 /\ HasLine1(r.body.registeredOffice) THEN "registeredOffice"
    ELSE IF slot < 2 /\ HasLine1(r.body.mailingAddress) THEN "mailingAddress"
    ELSE IF slot < 3 /\ HasLine1(r.body.authRepAddress) THEN "authRepAddress"
    ELSE "updateOrg"

PutOrgs_pc(r) == IF r.pc = "start" THEN PutOrgs_after(r, 0) ELSE r.pc

PutOrgs(inputs) ==
    \E in \in inputs, caller \in Callers :
        Receive("orgs/:id", in[1], caller, in[2])

PutOrgs_registeredOffice ==
    \E r \in inflight, ok \in Outcomes :
        /\ r.route = "orgs/:id" /\ PutOrgs_pc(r) = "registeredOffice"
        /\ IF ok /\ addressesOk(r.body.registeredOffice[1])
           THEN /\ addresses' = createAddress(r.body.registeredOffice[1])
                /\ nextId' = NewId("addresses")
                /\ Continue(r, [r EXCEPT !.loc.registeredOfficeId = nextId.addresses,
                                         !.pc = PutOrgs_after(r, 1)])
                /\ UNCHANGED <<orgs, people, personOnOrgs, shareClasses,
                               shareIssuances, shareTransfers, auditLogs, clock, templates, generatedDocs>>
           ELSE Fail(r, 500)

PutOrgs_mailingAddress ==
    \E r \in inflight, ok \in Outcomes :
        /\ r.route = "orgs/:id" /\ PutOrgs_pc(r) = "mailingAddress"
        /\ IF ok /\ addressesOk(r.body.mailingAddress[1])
           THEN /\ addresses' = createAddress(r.body.mailingAddress[1])
                /\ nextId' = NewId("addresses")
                /\ Continue(r, [r EXCEPT !.loc.mailingAddressId = nextId.addresses,
                                         !.pc = PutOrgs_after(r, 2)])
                /\ UNCHANGED <<orgs, people, personOnOrgs, shareClasses,
                               shareIssuances, shareTransfers, auditLogs, clock, templates, generatedDocs>>
           ELSE Fail(r, 500)

PutOrgs_authRepAddress ==
    \E r \in inflight, ok \in Outcomes :
        /\ r.route = "orgs/:id" /\ PutOrgs_pc(r) = "authRepAddress"
        /\ IF ok /\ addressesOk(r.body.authRepAddress[1])
           THEN /\ addresses' = createAddress(r.body.authRepAddress[1])
                /\ nextId' = NewId("addresses")
                /\ Continue(r, [r EXCEPT !.loc.authRepAddressId = nextId.addresses,
                                         !.pc = "updateOrg"])
                /\ UNCHANGED <<orgs, people, personOnOrgs, shareClasses,
                               shareIssuances, shareTransfers, auditLogs, clock, templates, generatedDocs>>
           ELSE Fail(r, 500)

\* orgUpdates after insertOrgSchema.partial().parse: the scalar fields of the
\* body that are set, and the address ids the handler has set.
OrgUpdates(r) ==
    LET pick(f, v, unset) == IF v = unset THEN <<>> ELSE f :> v
    IN  pick("name", r.body.name, NONE)
        @@ pick("jurisdiction", r.body.jurisdiction, NONE)
        @@ pick("registeredOfficeId", r.loc.registeredOfficeId, NULL)
        @@ pick("mailingAddressId", r.loc.mailingAddressId, NULL)
        @@ pick("authRepAddressId", r.loc.authRepAddressId, NULL)

\* updateOrg returns undefined when no row has the id; org.id then throws.
PutOrgs_updateOrg ==
    \E r \in inflight, ok \in Outcomes :
        /\ r.route = "orgs/:id" /\ PutOrgs_pc(r) = "updateOrg"
        /\ IF ok /\ r.orgId \in Ids(orgs)
           THEN /\ orgs' = updateOrg(r.orgId, OrgUpdates(r))
                /\ clock' = clock + 1
                /\ Continue(r, [r EXCEPT !.pc = "createAuditLog", !.row = r.orgId])
                /\ UNCHANGED <<addresses, people, personOnOrgs, shareClasses,
                               shareIssuances, shareTransfers, auditLogs, nextId, templates, generatedDocs>>
           ELSE Fail(r, 500)

PutOrgs_audit ==
    \E r \in inflight, ok \in Outcomes :
        /\ At(r, "orgs/:id", "createAuditLog")
        /\ AuditAndRespond(r, ok, r.row, DevUser, "UPDATE_ORG", 200)

(***************************************************************************)
(* POST /api/orgs/:orgId/people                                            *)
(***************************************************************************)
PersonBody(firstName, address, roles) ==
    [person |-> [firstName |-> firstName, lastName |-> "Doe", address |-> address],
     roles |-> roles]

\* An element of req.body.roles; a JSON body cannot carry a Date, so
\* startDate is absent in every body the schema lets through.
RoleOf(role, orgId, personId) ==
    [role |-> role, startAt |-> NULL, startDate |-> NULL,
     orgId |-> orgId, personId |-> personId]

Role(role) == RoleOf(role, NULL, NULL)

\* insertPersonSchema.parse
insertPersonSchemaOk(d) == d.firstName # NONE /\ d.lastName # NONE

\* personData after the handler has replaced address by addressId.
PersonData(r) ==
    [firstName |-> r.body.person.firstName, lastName |-> r.body.person.lastName,
     addressId |-> r.loc.addressId]

\* insertPersonOnOrgSchema.parse({...role, startAt, orgId, personId}): the
\* columns are orgId, personId, role, title, startDate and endAt; the key
\* startAt is not one of them and is stripped.
insertPersonOnOrgSchemaOk(d) ==
    d.orgId # NULL /\ d.personId # NULL /\ d.role # NONE

RelationData(r) ==
    [orgId |-> r.orgId, personId |-> r.row, role |-> r.body.roles[r.k].role,
     startDate |-> r.body.roles[r.k].startDate]

PostPeople_pc(r) ==
    IF r.pc = "start"
    THEN IF Present(r.body.person.address) THEN "createAddress" ELSE "createPerson"
    ELSE r.pc

\* After the person or a role was created: the next role, or the audit log.
PostPeople_after(r, k) ==
    IF k <= Len(r.body.roles) THEN "createPersonOnOrg" ELSE "createAuditLog"

PostPeople(inputs) ==
    \E in \in inputs, caller \in Callers :
        Receive("people", in[1], caller, in[2])

PostPeople_createAddress ==
    \E r \in inflight, ok \in Outcomes :
        /\ r.route = "people" /\ PostPeople_pc(r) = "createAddress"
        /\ IF ok /\ addressesOk(r.body.person.address[1])
           THEN /\ addresses' = createAddress(r.body.person.address[1])
                /\ nextId' = NewId("addresses")
                /\ Continue(r, [r EXCEPT !.loc.addressId = nextId.addresses,
                                         !.pc = "createPerson"])
                /\ UNCHANGED <<orgs, people, personOnOrgs, shareClasses,
                               shareIssuances, shareTransfers, auditLogs, clock, templates, generatedDocs>>
           ELSE Fail(r, 500)

PostPeople_createPerson ==
    \E r \in inflight, ok \in Outcomes :
        /\ r.route = "people" /\ PostPeople_pc(r) = "createPerson"
        /\ IF ~ insertPersonSchemaOk(PersonData(r)) THEN ok /\ Fail(r, 500)
           ELSE IF ok /\ peopleOk(PersonData(r))
           THEN /\ people' = createPerson(PersonData(r))
                /\ nextId' = NewId("people")
                /\ Continue(r, [r EXCEPT !.row = nextId.people,
                                         !.pc = PostPeople_after(r, 1)])
                /\ UNCHANGED <<addresses, orgs, personOnOrgs, shareClasses,
                               shareIssuances, shareTransfers, auditLogs, clock, templates, generatedDocs>>
           ELSE Fail(r, 500)

\* One iteration of the loop over roles.
PostPeople_createPersonOnOrg ==
    \E r \in inflight, ok \in Outcomes :
        /\ At(r, "people", "createPersonOnOrg")
        /\ IF ~ insertPersonOnOrgSchemaOk(RelationData(r)) THEN ok /\ Fail(r, 500)
           ELSE IF ok /\ personOnOrgsOk(RelationData(r))
           THEN /\ personOnOrgs' = createPersonOnOrg(RelationData(r))
                /\ nextId' = NewId("personOnOrgs")
                /\ Continue(r, [r EXCEPT !.k = r.k + 1,
                                         !.pc = PostPeople_after(r, r.k + 1)])
                /\ UNCHANGED <<addresses, orgs, people, shareClasses,
                               shareIssuances, shareTransfers, auditLogs, clock, templates, generatedDocs>>
           ELSE Fail(r, 500)

PostPeople_audit ==
    \E r \in inflight, ok \in Outcomes :
        /\ At(r, "people", "createAuditLog")
        /\ AuditAndRespond(r, ok, r.orgId, r.caller, "ADD_PERSON", 201)

(***************************************************************************)
(* POST /api/orgs/:orgId/share-classes                                     *)
(***************************************************************************)
ShareClassBody(orgId, shortCode) ==
    [orgId |-> orgId, name |-> "Class " \o shortCode, shortCode |-> shortCode]

\* insertShareClassSchema.parse
insertShareClassSchemaOk(d) ==
    d.orgId # NULL /\ d.name # NONE /\ d.shortCode # NONE

ShareClassData_body(r) == r.body

\* {...req.body, orgId: req.params.orgId}
ShareClassData(r) == [r.body EXCEPT !.orgId = r.orgId]

PostShareClasses(inputs) ==
    \E in \in inputs, caller \in Callers :
        Receive("share-classes", in[1], caller, in[2])

PostShareClasses_create ==
    \E r \in inflight, ok \in Outcomes :
        /\ At(r, "share-classes", "start")
        /\ IF ~ insertShareClassSchemaOk(ShareClassData(r)) THEN ok /\ Fail(r, 500)
           ELSE IF ok /\ shareClassesOk(ShareClassData(r))
           THEN /\ shareClasses' = createShareClass(ShareClassData(r))
                /\ nextId' = NewId("shareClasses")
                /\ Continue(r, [r EXCEPT !.pc = "createAuditLog", !.row = nextId.shareClasses])
                /\ UNCHANGED <<addresses, orgs, people, personOnOrgs,
                               shareIssuances, shareTransfers, auditLogs, clock, templates, generatedDocs>>
           ELSE Fail(r, 500)

PostShareClasses_audit ==
    \E r \in inflight, ok \in Outcomes :
        /\ At(r, "share-classes", "createAuditLog")
        /\ AuditAndRespond(r, ok, r.orgId, r.caller, "CREATE_SHARE_CLASS", 201)

(***************************************************************************)
(* POST /api/orgs/:orgId/issuances                                         *)
(***************************************************************************)
IssuanceBody(shareholderType, shareholderId, entityShareholderId, shareClassId, quantity, certNumber) ==
    [orgId |-> NULL, shareholderType |-> shareholderType,
     shareholderId |-> shareholderId, entityShareholderId |-> entityShareholderId,
     shareClassId |-> shareClassId, quantity |-> quantity,
     certNumber |-> certNumber, issueDate |-> 1]

\* insertShareIssuanceSchema.parse: shareholderType, shareholderId and
\* entityShareholderId are optional; quantity is any integer.
insertShareIssuanceSchemaOk(d) ==
    /\ d.orgId # NULL /\ d.shareClassId # NULL /\ d.quantity # NULL
    /\ d.certNumber # NONE /\ d.issueDate # NULL

\* {...req.body, orgId: req.params.orgId}; the column shareholderType
\* defaults to "person".
IssuanceData(r) ==
    [r.body EXCEPT !.orgId = r.orgId,
                   !.shareholderType = IF @ = NONE THEN "person" ELSE @]

PostIssuances(inputs) ==
    \E in \in inputs, caller \in Callers :
        Receive("issuances", in[1], caller, in[2])

PostIssuances_create ==
    \E r \in inflight, ok \in Outcomes :
        /\ At(r, "issuances", "start")
        /\ IF ~ insertShareIssuanceSchemaOk(IssuanceData(r)) THEN ok /\ Fail(r, 500)
           ELSE IF ok /\ shareIssuancesOk(IssuanceData(r))
           THEN /\ shareIssuances' = createShareIssuance(IssuanceData(r))
                /\ nextId' = NewId("shareIssuances")
                /\ Continue(r, [r EXCEPT !.pc = "createAuditLog", !.row = nextId.shareIssuances])
                /\ UNCHANGED <<addresses, orgs, people, personOnOrgs, shareClasses,
                               shareTransfers, auditLogs, clock, templates, generatedDocs>>
           ELSE Fail(r, 500)

PostIssuances_audit ==
    \E r \in inflight, ok \in Outcomes :
        /\ At(r, "issuances", "createAuditLog")
        /\ AuditAndRespond(r, ok, r.orgId, r.caller, "ISSUE_SHARES", 201)

(***************************************************************************)
(* POST /api/orgs/:orgId/corporate-shareholders                            *)
(***************************************************************************)
CorporateBody(entityShareholderId, shareClassId, quantity, certNumber) ==
    [entityShareholderId |-> entityShareholderId, shareClassId |-> shareClassId,
     quantity |-> quantity, certNumber |-> certNumber, issueDate |-> 1]

\* if (entityShareholderId === orgId)
IsSelfShareholder_never(entityShareholderId, orgId) == FALSE
IsSelfShareholder(entityShareholderId, orgId) == entityShareholderId = orgId

\* The row passed to createShareIssuance; parseInt and new Date of a missing
\* value give NaN and an invalid date, which the insert rejects.
CorporateData(r) ==
    [orgId |-> r.orgId, shareholderType |-> "entity", shareholderId |-> NULL,
     entityShareholderId |-> r.body.entityShareholderId,
     shareClassId |-> r.body.shareClassId, quantity |-> r.body.quantity,
     certNumber |-> r.body.certNumber, issueDate |-> r.body.issueDate]

PostCorporateShareholders(inputs) ==
    \E in \in inputs, caller \in Callers :
        Receive("corporate-shareholders", in[1], caller, in[2])

PostCorporateShareholders_create ==
    \E r \in inflight, ok \in Outcomes :
        /\ At(r, "corporate-shareholders", "start")
        /\ IF IsSelfShareholder(r.body.entityShareholderId, r.orgId)
           THEN ok /\ Fail(r, 400)
           ELSE IF ok /\ shareIssuancesOk(CorporateData(r))
           THEN /\ shareIssuances' = createShareIssuance(CorporateData(r))
                /\ nextId' = NewId("shareIssuances")
                /\ Continue(r, [r EXCEPT !.pc = "createAuditLog", !.row = nextId.shareIssuances])
                /\ UNCHANGED <<addresses, orgs, people, personOnOrgs, shareClasses,
                               shareTransfers, auditLogs, clock, templates, generatedDocs>>
           ELSE Fail(r, 500)

PostCorporateShareholders_audit ==
    \E r \in inflight, ok \in Outcomes :
        /\ At(r, "corporate-shareholders", "createAuditLog")
        /\ AuditAndRespond(r, ok, r.orgId, r.caller, "ADD_CORPORATE_SHAREHOLDER", 201)

(***************************************************************************)
(* POST /api/orgs/:orgId/transfers                                         *)
(***************************************************************************)
TransferBody(fromPersonId, toPersonId, shareClassId, quantity) ==
    [orgId |-> NULL, fromPersonId |-> fromPersonId, toPersonId |-> toPersonId,
     shareClassId |-> shareClassId, quantity |-> quantity, transferDate |-> 1]

\* insertShareTransferSchema.parse: fromPersonId is optional.
insertShareTransferSchemaOk(d) ==
    /\ d.orgId # NULL /\ d.toPersonId # NULL /\ d.shareClassId # NULL
    /\ d.quantity # NULL /\ d.transferDate # NULL

\* {...req.body, orgId: req.params.orgId}
TransferData(r) == [r.body EXCEPT !.orgId = r.orgId]

PostTransfers(inputs) ==
    \E in \in inputs, caller \in Callers :
        Receive("transfers", in[1], caller, in[2])

PostTransfers_create ==
    \E r \in inflight, ok \in Outcomes :
        /\ At(r, "transfers", "start")
        /\ IF ~ insertShareTransferSchemaOk(TransferData(r)) THEN ok /\ Fail(r, 500)
           ELSE IF ok /\ shareTransfersOk(TransferData(r))
           THEN /\ shareTransfers' = createShareTransfer(TransferData(r))
                /\ nextId' = NewId("shareTransfers")
                /\ Continue(r, [r EXCEPT !.pc = "createAuditLog", !.row = nextId.shareTransfers])
                /\ UNCHANGED <<addresses, orgs, people, personOnOrgs, shareClasses,
                               shareIssuances, auditLogs, clock, templates, generatedDocs>>
           ELSE Fail(r, 500)

PostTransfers_audit ==
    \E r \in inflight, ok \in Outcomes :
        /\ At(r, "transfers", "createAuditLog")
        /\ AuditAndRespond(r, ok, r.orgId, r.caller, "TRANSFER_SHARES", 201)

(***************************************************************************)
(* The requests of the model: for every route the bodies that pass its     *)
(* validation and reference rows of the database, and one body that does   *)
(* not pass.                                                               *)
(***************************************************************************)
Quantities == {1, MaxQty}

First(S) == {x \in S : \A y \in S : x <= y}

A1 == <<Addr("1 Main St", "Dover")>>
A2 == <<Addr("2 Side St", "Dover")>>

OrgBodies ==
    {OrgBody("Gamma", "DE", <<>>, <<>>, <<>>, <<>>),
     OrgBody("Gamma", "DE", A1, A2, <<>>, <<>>),
     OrgBody("Gamma", "DE", <<>>, <<>>, A1, <<>>),
     OrgBody(NONE, "DE", <<>>, <<>>, <<>>, <<>>)}

OrgUpdateBodies ==
    {OrgBody("Delta", NONE, <<>>, <<>>, <<>>, <<>>),
     OrgBody(NONE, NONE, A2, A1, A1, A1)}

PersonBodies ==
    {PersonBody("Ann", <<>>, <<>>),
     PersonBody("Ann", <<>>, <<Role("Director"), Role("Shareholder")>>),
     PersonBody("Ann", A1, <<Role("Officer")>>),
     PersonBody(NONE, <<>>, <<Role("Director")>>),
     PersonBody("Ann", <<>>, <<Role("Janitor")>>)}

ShareClassBodies ==
    {ShareClassBody(NULL, "A"), ShareClassBody(NULL, "B"),
     ShareClassBody(NULL, NONE)}

\* shareholderType, shareholderId, entityShareholderId of an issuance body
Holders ==
    {<<"person", p, NULL>> : p \in Ids(people)}
    \cup {<<"entity", NULL, o>> : o \in Ids(orgs)}
    \cup {<<"person", NULL, NULL>>}
    \cup {<<"person", p, o>> : p \in First(Ids(people)), o \in First(Ids(orgs))}

IssuanceBodies ==
    {IssuanceBody(h[1], h[2], h[3], c, MaxQty, "C1") :
        h \in Holders, c \in Ids(shareClasses)}
    \cup {IssuanceBody("person", NULL, NULL, GhostId, MaxQty, NONE)}
    \cup {IssuanceBody("person", p, NULL, c, -1, "C2") :
             p \in First(Ids(people)), c \in First(Ids(shareClasses))}

CorporateBodies ==
    {CorporateBody(e, c, MaxQty, "K1") :
        e \in Ids(orgs) \cup {NULL}, c \in Ids(shareClasses)}
    \cup {CorporateBody(NULL, GhostId, MaxQty, NONE)}

TransferBodies ==
    {TransferBody(ft[1], ft[2], c, q) :
        ft \in {x \in Ids(people) \X Ids(people) : x[1] # x[2]},
        c \in Ids(shareClasses), q \in Quantities}
    \cup {TransferBody(NULL, t, c, MaxQty) :
        t \in First(Ids(people)), c \in Ids(shareClasses)}
    \cup {TransferBody(NULL, NULL, GhostId, MaxQty)}

Next ==
    \/ PostOrgs(OrgBodies)
    \/ PostOrgs_throw \/ PostOrgs_registeredOffice \/ PostOrgs_recordsOffice
    \/ PostOrgs_createOrg \/ PostOrgs_audit
    \/ PutOrgs(Inputs(OrgUpdateBodies, OrgBody("Delta", NONE, <<>>, <<>>, <<>>, <<>>)))
    \/ PutOrgs_registeredOffice \/ PutOrgs_mailingAddress
    \/ PutOrgs_authRepAddress \/ PutOrgs_updateOrg \/ PutOrgs_audit
    \/ PostPeople(Inputs(PersonBodies, PersonBody("Ann", <<>>, <<>>)))
    \/ PostPeople_createAddress \/ PostPeople_createPerson
    \/ PostPeople_createPersonOnOrg \/ PostPeople_audit
    \/ PostShareClasses(Inputs(ShareClassBodies, ShareClassBody(NULL, "A")))
    \/ PostShareClasses_create \/ PostShareClasses_audit
    \/ PostIssuances(Inputs(IssuanceBodies, IssuanceBody("person", NULL, NULL, GhostId, MaxQty, "C1")))
    \/ PostIssuances_create \/ PostIssuances_audit
    \/ PostCorporateShareholders(Inputs(CorporateBodies, CorporateBody(GhostId, GhostId, MaxQty, "K1")))
    \/ PostCorporateShareholders_create \/ PostCorporateShareholders_audit
    \/ PostTransfers(Inputs(TransferBodies, TransferBody(NULL, GhostId, GhostId, MaxQty)))
    \/ PostTransfers_create \/ PostTransfers_audit

Spec == Init /\ [][Next]_vars

(***************************************************************************)
(* The same handlers with, for every route, one body that passes           *)
(* validation and one request that does not succeed, under the first       *)
(* organization; the update bodies carry no address, so the address steps  *)
(* of PUT /api/orgs/:id are never taken.                                   *)
(***************************************************************************)
OrgBodiesCore ==
    {OrgBody("Gamma", "DE", A1, A2, <<>>, <<>>),
     OrgBody(NONE, "DE", <<>>, <<>>, <<>>, <<>>)}

OrgUpdateBodiesCore == {OrgBody("Delta", NONE, <<>>, <<>>, <<>>, <<>>)}

\* The orgId and the personId that the bodies carry: the organization
\* made last, while the path names the one made first, and the person made
\* first.
BodyOrgId ==
    IF orgs = {} THEN NULL
    ELSE CHOOSE o \in Ids(orgs) : \A x \in Ids(orgs) : x <= o

BodyPersonId ==
    IF people = {} THEN NULL
    ELSE CHOOSE p \in Ids(people) : \A x \in Ids(people) : p <= x

PersonBodiesCore ==
    {PersonBody("Ann", A1, <<RoleOf("Director", BodyOrgId, BodyPersonId)>>)}

ShareClassBodiesCore == {ShareClassBody(BodyOrgId, "A")}

IssuanceBodiesCore ==
    {[IssuanceBody("person", p, NULL, c, MaxQty, "C1") EXCEPT !.orgId = BodyOrgId] :
        p \in First(Ids(people)), c \in First(Ids(shareClasses))}

CorporateBodiesCore ==
    {CorporateBody(e, c, MaxQty, "K1") :
        e \in Ids(orgs), c \in First(Ids(shareClasses))}

TransferBodiesCore ==
    {[TransferBody(f, t, c, MaxQty) EXCEPT !.orgId = BodyOrgId] :
        f \in First(Ids(people)), t \in Ids(people) \ First(Ids(people)),
        c \in First(Ids(shareClasses))}

\* Requests under the first organization with any of the bodies, and under
\* no organization with one of them.
InputsCore(bodies, anyBody) ==
    (First(Ids(orgs)) \X bodies) \cup {<<GhostId, anyBody>>}

NextCore ==
    \/ PostOrgs(OrgBodiesCore)
    \/ PostOrgs_throw \/ PostOrgs_registeredOffice \/ PostOrgs_recordsOffice
    \/ PostOrgs_createOrg \/ PostOrgs_audit
    \/ PutOrgs(InputsCore(OrgUpdateBodiesCore, OrgBody("Delta", NONE, <<>>, <<>>, <<>>, <<>>)))
    \/ PutOrgs_updateOrg \/ PutOrgs_audit
    \/ PostPeople(InputsCore(PersonBodiesCore, PersonBody("Ann", <<>>, <<>>)))
    \/ PostPeople_createAddress \/ PostPeople_createPerson
    \/ PostPeople_createPersonOnOrg \/ PostPeople_audit
    \/ PostShareClasses(InputsCore(ShareClassBodiesCore, ShareClassBody(NULL, NONE)))
    \/ PostShareClasses_create \/ PostShareClasses_audit
    \/ PostIssuances(InputsCore(IssuanceBodiesCore, IssuanceBody("person", NULL, NULL, GhostId, MaxQty, NONE)))
    \/ PostIssuances_create \/ PostIssuances_audit
    \/ PostCorporateShareholders(InputsCore(CorporateBodiesCore, CorporateBody(GhostId, GhostId, MaxQty, "K1")))
    \/ PostCorporateShareholders_create \/ PostCorporateShareholders_audit
    \/ PostTransfers(InputsCore(TransferBodiesCore, TransferBody(NULL, GhostId, GhostId, MaxQty)))
    \/ PostTransfers_create \/ PostTransfers_audit

SpecCore == Init /\ [][NextCore]_vars

(***************************************************************************)
(* GET /api/orgs/:orgId/people                                             *)
(***************************************************************************)
\* SELECT people.* FROM people INNER JOIN person_on_orgs ON people.id =
\* person_on_orgs.person_id WHERE person_on_orgs.org_id = orgId: one result
\* row per role assignment, as the bag of the people rows.
getPeopleByOrg(orgId) ==
    LET rolesOf(p) == {x \in personOnOrgs : x.personId = p.id /\ x.orgId = orgId}
    IN  [p \in {q \in people : rolesOf(q) # {}} |-> Cardinality(rolesOf(p))]

getPersonOrgRelations_all(orgId) == personOnOrgs
getPersonOrgRelations(orgId) == {x \in personOnOrgs : x.orgId = orgId}

\* people.map(person => ({...person, roles: relations.filter(r =>
\* r.personId === person.id)}))
peopleWithRoles(persons, relations) ==
    LET decorated(p) == [person |-> p,
                         roles |-> {x \in relations : x.personId = p.id}]
    IN  [e \in {decorated(p) : p \in DOMAIN persons} |-> persons[e.person]]

\* res.json(...) of a handler that writes nothing.
Respond(r, status) ==
    /\ inflight' = inflight \ {r}
    /\ resp' = [status |-> status]
    /\ UNCHANGED <<tables, nextId, clock, nCalls, okLog, aside>>

GetPeople ==
    \E orgId \in OrgPaths, caller \in Callers :
        Receive("people:list", orgId, caller, NULL)

GetPeople_getPeopleByOrg ==
    \E r \in inflight, ok \in Outcomes :
        /\ At(r, "people:list", "start")
        /\ IF ok
           THEN /\ Continue(r, [r EXCEPT !.pc = "getPersonOrgRelations",
                                         !.loc.people = getPeopleByOrg(r.orgId)])
                /\ UNCHANGED <<tables, nextId, clock>>
           ELSE Fail(r, 500)

GetPeople_getPersonOrgRelations ==
    \E r \in inflight, ok \in Outcomes :
        /\ At(r, "people:list", "getPersonOrgRelations")
        /\ IF ok
           THEN /\ listing' = [orgId |-> r.orgId,
                               rows |-> peopleWithRoles(r.loc.people,
                                            getPersonOrgRelations(r.orgId))]
                /\ Respond(r, 200)
           ELSE Fail(r, 500)

(***************************************************************************)
(* The cap table page (client/src/pages/CapTable.tsx), computed from the   *)
(* answer of GET /api/orgs/:orgId/people.                                  *)
(***************************************************************************)
\* role.shareQuantity || 0: the property of a role as the server sent it,
\* undefined when the row has no such property.
shareQuantity(role) ==
    IF "shareQuantity" \in DOMAIN role THEN role.shareQuantity ELSE NULL

\* person.roles.filter(role => role.role === 'Shareholder')
shareRoles(e) == {role \in e.roles : role.role = "Shareholder"}

\* people.filter(person => person.roles.some(role => role.role === 'Shareholder'))
shareholders(list) == {e \in BagToSet(list) : shareRoles(e) # {}}

\* shareRoles.reduce((sum, role) => sum + (role.shareQuantity || 0), 0)
RECURSIVE reduceRoles(_)
reduceRoles(roles) ==
    IF roles = {} THEN 0
    ELSE LET role == CHOOSE x \in roles : TRUE
         IN  shareQuantity(role) + reduceRoles(roles \ {role})

\* shareholders.reduce((total, person) => total + ..., 0), over the entries
\* es of the list, each as often as the list holds it.
RECURSIVE reducePeople(_, _)
reducePeople(es, list) ==
    IF es = {} THEN 0
    ELSE LET e == CHOOSE x \in es : TRUE
         IN  CopiesIn(e, list) * reduceRoles(shareRoles(e))
             + reducePeople(es \ {e}, list)

totalShares(list) == reducePeople(shareholders(list), list)

\* ((shares / totalShares) * 100).toFixed(2) + "%", as the number of
\* hundredths of a percent, rounded; "0%" when there are no shares.
formatPercentage(shares, total) ==
    IF total = 0 THEN 0 ELSE (shares * 10000 * 2 + total) \div (2 * total)

\* The table rows: one per shareholder role of each listed person.
CapTableRows(list) ==
    UNION {{[personId |-> e.person.id, role |-> role.id,
             shares |-> shareQuantity(role),
             ownership |-> formatPercentage(shareQuantity(role), totalShares(list))] :
               role \in shareRoles(e)} : e \in shareholders(list)}

(***************************************************************************)
(* The people of an organization: the requests that add people and the     *)
(* requests that list them.                                                *)
(***************************************************************************)
NextPeople ==
    \/ PostPeople(Inputs(PersonBodies, PersonBody("Ann", <<>>, <<>>)))
    \/ PostPeople_createAddress \/ PostPeople_createPerson
    \/ PostPeople_createPersonOnOrg \/ PostPeople_audit
    \/ GetPeople
    \/ GetPeople_getPeopleByOrg \/ GetPeople_getPersonOrgRelations

SpecPeople == Init /\ [][NextPeople]_vars

(***************************************************************************)
(* GET /api/orgs: the organizations of the development user.               *)
(***************************************************************************)
\* The sequences that hold every row of the set rows once.
Orderings(rows) ==
    {l \in [1..Cardinality(rows) -> rows] :
        \A i, j \in DOMAIN l : i # j => l[i] # l[j]}

getOrgs_unordered(userId) ==
    Orderings({o \in orgs : o.createdById = userId})

\* getOrgs: SELECT * FROM orgs WHERE created_by_id = userId ORDER BY
\* updated_at DESC; the results the statement can give (rows with the same
\* updated_at come in any order).
getOrgs(userId) ==
    {l \in Orderings({o \in orgs : o.createdById = userId}) :
        \A i, j \in DOMAIN l : i < j => l[i].updatedAt >= l[j].updatedAt}

GetOrgs ==
    \E caller \in Callers : Receive("orgs:list", NULL, caller, NULL)

GetOrgs_getOrgs ==
    \E r \in inflight, ok \in Outcomes :
        /\ At(r, "orgs:list", "start")
        /\ IF ok
           THEN /\ \E result \in getOrgs(DevUser) : orgList' = result
                /\ inflight' = inflight \ {r}
                /\ resp' = [status |-> 200]
                /\ UNCHANGED <<tables, nextId, clock, nCalls, okLog, listing,
                               deleteResult, currentEntity, recentEntities>>
           ELSE Fail(r, 500)

(***************************************************************************)
(* The organizations: the requests that create, update and list them.      *)
(***************************************************************************)
NextOrgs ==
    \/ PostOrgs(OrgBodiesCore)
    \/ PostOrgs_throw \/ PostOrgs_registeredOffice \/ PostOrgs_recordsOffice
    \/ PostOrgs_createOrg \/ PostOrgs_audit
    \/ PutOrgs(Inputs(OrgUpdateBodiesCore, OrgBody("Delta", NONE, <<>>, <<>>, <<>>, <<>>)))
    \/ PutOrgs_updateOrg \/ PutOrgs_audit
    \/ GetOrgs \/ GetOrgs_getOrgs

SpecOrgs == Init /\ [][NextOrgs]_vars

(***************************************************************************)
(* POST /api/orgs/:orgId/documents and POST /api/orgs/:orgId/documents/     *)
(* bundle: each looks the template of a document type up by its code and   *)
(* creates a placeholder template when it finds none.                      *)
(***************************************************************************)
TemplateConfig(name, code, scope) == [name |-> name, code |-> code, scope |-> scope]

documentTemplates ==
    [x \in {"minute-book", "bylaws", "founding-resolution", "dividend-resolution"} |->
        CASE x = "minute-book" -> TemplateConfig("Corporate Minute Book", "MINUTE_BOOK", "minute-book")
          [] x = "bylaws" -> TemplateConfig("Corporate By-Laws", "BYLAWS", "bylaws")
          [] x = "founding-resolution" -> TemplateConfig("Founding Resolution", "FOUNDING_RES", "resolution")
          [] x = "dividend-resolution" -> TemplateConfig("Dividend Resolution", "DIVIDEND_RES", "resolution")]

bundleDocuments ==
    <<TemplateConfig("Corporate Minute Book", "MINUTE_BOOK", "minute-book"),
      TemplateConfig("Corporate By-Laws", "BYLAWS", "bylaws"),
      TemplateConfig("Founding Resolution", "FOUNDING_RES", "resolution")>>

\* The template configuration a request is working on.
templateConfig(r) ==
    IF r.route = "documents" THEN documentTemplates[r.body.documentType]
    ELSE bundleDocuments[r.k]

\* templates.find(t => t.code === templateConfig.code) over the result of
\* getTemplates, which is ordered by createdAt descending: the id of the
\* template created last among those with the code, or none.
FindTemplate(code) ==
    LET found == {t.id : t \in {x \in getTemplates : x.code = code}}
    IN  IF found = {} THEN NULL
        ELSE CHOOSE id \in found : \A x \in found : x <= id

\* The placeholder: fileKey: null, ownerId: userId.
PlaceholderTemplate(r) ==
    [name |-> templateConfig(r).name, code |-> templateConfig(r).code,
     scope |-> templateConfig(r).scope, fileKey |-> NONE, ownerId |-> r.caller]

\* The row passed to createGeneratedDoc.
GeneratedDocData(r) ==
    [orgId |-> r.orgId, templateId |-> r.loc.templateId,
     fileKey |-> templateConfig(r).name \o ".docx", createdBy |-> r.caller]

\* let template = await storage.getTemplates().then(...); if (!template) ...
LookUpTemplate(r, ok) ==
    IF ok
    THEN /\ Continue(r, [r EXCEPT
                !.pc = IF FindTemplate(templateConfig(r).code) = NULL
                       THEN "createTemplate" ELSE "createGeneratedDoc",
                !.loc.templateId = FindTemplate(templateConfig(r).code)])
         /\ UNCHANGED <<tables, nextId, clock>>
    ELSE Fail(r, 500)

\* template = await storage.createTemplate({...})
CreatePlaceholder(r, ok) ==
    IF ok /\ templatesOk(PlaceholderTemplate(r))
    THEN /\ templates' = createTemplate(PlaceholderTemplate(r))
         /\ nextId' = NewId("templates")
         /\ Continue(r, [r EXCEPT !.pc = "createGeneratedDoc",
                                   !.loc.templateId = nextId.templates])
         /\ UNCHANGED <<addresses, orgs, people, personOnOrgs, shareClasses,
                        shareIssuances, shareTransfers, auditLogs,
                        generatedDocs, clock>>
    ELSE Fail(r, 500)

PostDocuments(inputs) ==
    \E in \in inputs, caller \in Callers :
        Receive("documents", in[1], caller, in[2])

PostDocuments_getTemplates ==
    \E r \in inflight, ok \in Outcomes :
        /\ At(r, "documents", "start")
        /\ IF r.body.documentType \notin DOMAIN documentTemplates
           THEN ok /\ Fail(r, 400)
           ELSE LookUpTemplate(r, ok)

PostDocuments_createTemplate ==
    \E r \in inflight, ok \in Outcomes :
        /\ At(r, "documents", "createTemplate")
        /\ CreatePlaceholder(r, ok)

PostDocuments_createGeneratedDoc ==
    \E r \in inflight, ok \in Outcomes :
        /\ At(r, "documents", "createGeneratedDoc")
        /\ IF ok /\ generatedDocsOk(GeneratedDocData(r))
           THEN /\ generatedDocs' = createGeneratedDoc(GeneratedDocData(r))
                /\ nextId' = NewId("generatedDocs")
                /\ Continue(r, [r EXCEPT !.pc = "createAuditLog",
                                          !.row = nextId.generatedDocs])
                /\ UNCHANGED <<addresses, orgs, people, personOnOrgs, shareClasses,
                               shareIssuances, shareTransfers, auditLogs,
                               templates, clock>>
           ELSE Fail(r, 500)

PostDocuments_audit ==
    \E r \in inflight, ok \in Outcomes :
        /\ At(r, "documents", "createAuditLog")
        /\ AuditAndRespond(r, ok, r.orgId, r.caller, "CREATE_DOCUMENT", 201)

PostBundle(inputs) ==
    \E in \in inputs, caller \in Callers :
        Receive("documents/bundle", in[1], caller, in[2])

\* The lookup of the k-th bundle document; the check of bundleType comes
\* before the first one.
PostBundle_getTemplates ==
    \E r \in inflight, ok \in Outcomes :
        /\ r.route = "documents/bundle" /\ r.pc \in {"start", "getTemplates"}
        /\ IF r.pc = "start" /\ r.body.bundleType # "new-corporation"
           THEN ok /\ Fail(r, 400)
           ELSE LookUpTemplate(r, ok)

PostBundle_createTemplate ==
    \E r \in inflight, ok \in Outcomes :
        /\ At(r, "documents/bundle", "createTemplate")
        /\ CreatePlaceholder(r, ok)

\* createdDocs.push(generatedDoc), then the next bundle document or the
\* audit log.
PostBundle_createGeneratedDoc ==
    \E r \in inflight, ok \in Outcomes :
        /\ At(r, "documents/bundle", "createGeneratedDoc")
        /\ IF ok /\ generatedDocsOk(GeneratedDocData(r))
           THEN /\ generatedDocs' = createGeneratedDoc(GeneratedDocData(r))
                /\ nextId' = NewId("generatedDocs")
                /\ Continue(r, [r EXCEPT
                       !.pc = IF r.k < Len(bundleDocuments)
                              THEN "getTemplates" ELSE "createAuditLog",
                       !.k = IF r.k < Len(bundleDocuments) THEN r.k + 1 ELSE r.k,
                       !.row = nextId.generatedDocs])
                /\ UNCHANGED <<addresses, orgs, people, personOnOrgs, shareClasses,
                               shareIssuances, shareTransfers, auditLogs,
                               templates, clock>>
           ELSE Fail(r, 500)

PostBundle_audit ==
    \E r \in inflight, ok \in Outcomes :
        /\ At(r, "documents/bundle", "createAuditLog")
        /\ AuditAndRespond(r, ok, r.orgId, r.caller, "CREATE_DOCUMENT_BUNDLE", 201)

\* Templates uploaded by earlier POST /api/templates requests.
UploadedTemplates ==
    {[id |-> i, name |-> bundleDocuments[i].name, code |-> bundleDocuments[i].code,
      scope |-> bundleDocuments[i].scope, fileKey |-> "uploads/t.docx",
      ownerId |-> "u1"] : i \in DOMAIN bundleDocuments}

InitUploaded == Seeded(UploadedTemplates)

DocumentBodies ==
    {[documentType |-> "minute-book"], [documentType |-> "dividend-resolution"],
     [documentType |-> "memo"]}

BundleBodies == {[bundleType |-> "new-corporation"], [bundleType |-> "other"]}

NextDocuments ==
    \/ PostDocuments(InputsCore(DocumentBodies, [documentType |-> "minute-book"]))
    \/ PostDocuments_getTemplates \/ PostDocuments_createTemplate
    \/ PostDocuments_createGeneratedDoc \/ PostDocuments_audit
    \/ PostBundle(InputsCore(BundleBodies, [bundleType |-> "new-corporation"]))
    \/ PostBundle_getTemplates \/ PostBundle_createTemplate
    \/ PostBundle_createGeneratedDoc \/ PostBundle_audit

SpecDocuments == (Init \/ InitUploaded) /\ [][NextDocuments]_vars

(***************************************************************************)
(* EntityProvider (client/src/hooks/useEntityContext): the entity the      *)
(* user works on and the entities opened recently.  currentEntity is the   *)
(* empty sequence for null, or the sequence of the one entity.             *)
(***************************************************************************)
RecentLimit == 5

Entity(id, name) == [id |-> id, name |-> name, jurisdiction |-> "DE"]

\* The entities a page can hand to the context: the organizations by id,
\* the first of them also under the name it has after a renaming.
Entities ==
    {Entity(id, "Acme") : id \in 1..MaxEntities} \cup {Entity(1, "Renamed")}

\* prev.filter(e => e.id !== entity.id)
WithoutId(prev, id) ==
    LET keep(e) == e.id # id IN SelectSeq(prev, keep)

\* list.slice(0, n)
slice(list, n) == SubSeq(list, 1, IF Len(list) < n THEN Len(list) ELSE n)

addRecentEntity_unfiltered(prev, entity) ==
    slice(<<entity>> \o prev, RecentLimit)

\* [entity, ...filtered].slice(0, 5)
addRecentEntity(prev, entity) ==
    slice(<<entity>> \o WithoutId(prev, entity.id), RecentLimit)

serverVars == <<tables, nextId, clock, inflight, nCalls, resp, okLog, listing,
                orgList, deleteResult>>

\* setCurrentEntity(entity | null)
SetCurrentEntity ==
    \E entity \in {<<e>> : e \in Entities} \cup {<<>>} :
        /\ currentEntity' = entity
        /\ recentEntities' =
             IF entity # <<>> THEN addRecentEntity(recentEntities, entity[1])
             ELSE recentEntities
        /\ UNCHANGED serverVars

AddRecentEntity ==
    \E entity \in Entities :
        /\ recentEntities' = addRecentEntity(recentEntities, entity)
        /\ UNCHANGED <<currentEntity, serverVars>>

\* clearCurrentEntity(), and the effect that runs on a change of location
\* to "/" or "/dashboard".
ClearCurrentEntity ==
    /\ currentEntity' = <<>>
    /\ UNCHANGED <<recentEntities, serverVars>>

NextEntity == SetCurrentEntity \/ AddRecentEntity \/ ClearCurrentEntity

SpecEntity == Init /\ [][NextEntity]_vars

(***************************************************************************)
(* The storage interface next to the routes: storage.deleteOrg(id), which  *)
(* no route calls, is the one method besides createAuditLog whose          *)
(* statement the audit_logs table takes part in (through its foreign key). *)
(***************************************************************************)
DeleteOrg ==
    \E id \in Ids(orgs), ok \in Outcomes :
        /\ ok /\ nCalls < MaxCalls
        /\ nCalls' = nCalls + 1
        /\ IF ~ ReferencesOrg(id)
           THEN /\ orgs' = deleteOrg(id)
                /\ deleteResult' = [id |-> id, ok |-> TRUE]
           ELSE /\ deleteResult' = [id |-> id, ok |-> FALSE]
                /\ UNCHANGED orgs
        /\ UNCHANGED <<addresses, people, personOnOrgs, shareClasses,
                       shareIssuances, shareTransfers, auditLogs, templates,
                       generatedDocs, nextId, clock,
                       inflight, resp, okLog, listing,
                       orgList, currentEntity, recentEntities>>

NextStorage == NextCore \/ DeleteOrg

SpecStorage == Init /\ [][NextStorage]_vars

(***************************************************************************)
(* The share ledger: the net holding of a person in a share class of an    *)
(* organization, from the issuances to the person and the transfers.       *)
(***************************************************************************)
RECURSIVE SumQuantity(_)
SumQuantity(rows) ==
    IF rows = {} THEN 0
    ELSE LET row == CHOOSE x \in rows : TRUE
         IN  row.quantity + SumQuantity(rows \ {row})

NetHolding(orgId, shareClassId, personId) ==
    SumQuantity({i \in shareIssuances :
                    /\ i.orgId = orgId /\ i.shareClassId = shareClassId
                    /\ i.shareholderId = personId})
    + SumQuantity({t \in shareTransfers :
                    /\ t.orgId = orgId /\ t.shareClassId = shareClassId
                    /\ t.toPersonId = personId})
    - SumQuantity({t \in shareTransfers :
                    /\ t.orgId = orgId /\ t.shareClassId = shareClassId
                    /\ t.fromPersonId = personId})

\* The request r is answered in this step.
Answered(r) == r \in inflight /\ \A q \in inflight' : q.n # r.n

\* The request r takes a step.
Steps(r) == r \in inflight /\ r \notin inflight'

(***************************************************************************)
(* C1: every request answered with a 2xx status has exactly one audit log  *)
(* row with the organization and the action of the request (the number of  *)
(* such rows equals the number of such successful requests), and no audit  *)
(* log row is without a successful request.                                *)
(***************************************************************************)
ActionOf(route) ==
    CASE route = "orgs" -> "CREATE_ORG"
      [] route = "orgs/:id" -> "UPDATE_ORG"
      [] route = "people" -> "ADD_PERSON"
      [] route = "share-classes" -> "CREATE_SHARE_CLASS"
      [] route = "issuances" -> "ISSUE_SHARES"
      [] route = "transfers" -> "TRANSFER_SHARES"
      [] route = "corporate-shareholders" -> "ADD_CORPORATE_SHAREHOLDER"
      [] route = "templates" -> "CREATE_TEMPLATE"
      [] route = "documents" -> "CREATE_DOCUMENT"
      [] route = "documents/bundle" -> "CREATE_DOCUMENT_BUNDLE"

AuditOf(e, a) ==
    a.orgId = e.orgId /\ a.action = ActionOf(e.route) /\ a.ref = e.ref

C1_AuditCompleteness ==
    /\ \A e \in BagToSet(okLog) :
          CopiesIn(e, okLog) = Cardinality({a \in auditLogs : AuditOf(e, a)})
    /\ \A a \in auditLogs : \E e \in BagToSet(okLog) : AuditOf(e, a)

C1_Witness ==
    /\ \E e \in BagToSet(okLog) : e.route = "transfers"
    /\ \E e \in BagToSet(okLog) : e.route = "orgs/:id"
    /\ inflight = {}

(***************************************************************************)
(* C2: a primary row (organization, person, share class, issuance,         *)
(* transfer) is never persisted without its audit entry: every such row    *)
(* has an audit log row about it, or belongs to a request that is still in *)
(* flight.                                                                 *)
(***************************************************************************)
Audited(actions, id) ==
    \E a \in auditLogs : a.action \in actions /\ a.ref = id

Pending(routes, id) ==
    \E r \in inflight : r.route \in routes /\ r.row = id

C2_AuditAtomic ==
    /\ \A o \in orgs :
          Audited({"CREATE_ORG"}, o.id) \/ Pending({"orgs"}, o.id)
    /\ \A p \in people :
          Audited({"ADD_PERSON"}, p.id) \/ Pending({"people"}, p.id)
    /\ \A c \in shareClasses :
          Audited({"CREATE_SHARE_CLASS"}, c.id) \/ Pending({"share-classes"}, c.id)
    /\ \A i \in shareIssuances :
          \/ Audited({"ISSUE_SHARES", "ADD_CORPORATE_SHAREHOLDER"}, i.id)
          \/ Pending({"issuances", "corporate-shareholders"}, i.id)
    /\ \A t \in shareTransfers :
          Audited({"TRANSFER_SHARES"}, t.id) \/ Pending({"transfers"}, t.id)

C7_SelfShareholderRejected ==
    [][\A r \in inflight :
          ( /\ At(r, "corporate-shareholders", "start") /\ Steps(r)
            /\ r.body.entityShareholderId = r.orgId )
          => ( /\ Answered(r) /\ resp'.status = 400
               /\ shareIssuances' = shareIssuances
               /\ auditLogs' = auditLogs )]_vars

C7_Witness ==
    /\ resp.status = 400
    /\ \E i \in shareIssuances : i.shareholderType = "entity"

(***************************************************************************)
(* C8: every share issuance has exactly one of shareholderId and           *)
(* entityShareholderId set: shareholderId when its shareholderType is      *)
(* "person", entityShareholderId when it is "entity".                      *)
(***************************************************************************)
C8_ShareholderExclusivity ==
    \A i \in shareIssuances :
        \/ /\ i.shareholderType = "person"
           /\ i.shareholderId # NULL /\ i.entityShareholderId = NULL
        \/ /\ i.shareholderType = "entity"
           /\ i.entityShareholderId # NULL /\ i.shareholderId = NULL

(***************************************************************************)
(* C9: the share class of every share issuance and of every share transfer *)
(* belongs to the organization of the row.                                 *)
(***************************************************************************)
ClassOfOrg(shareClassId, orgId) ==
    \E c \in shareClasses : c.id = shareClassId /\ c.orgId = orgId

C9_ShareClassOfSameOrg ==
    /\ \A i \in shareIssuances : ClassOfOrg(i.shareClassId, i.orgId)
    /\ \A t \in shareTransfers : ClassOfOrg(t.shareClassId, t.orgId)

(***************************************************************************)
(* C10: no two share classes of an organization have the same shortCode.   *)
(***************************************************************************)
C10_ShortCodeUnique ==
    \A c1 \in shareClasses, c2 \in shareClasses :
        (c1.orgId = c2.orgId /\ c1.shortCode = c2.shortCode) => c1 = c2

(***************************************************************************)
(* C11: no two share issuances of the same organization and the same share *)
(* class have the same certNumber.                                         *)
(***************************************************************************)
C11_CertNumberUnique ==
    \A i1 \in shareIssuances, i2 \in shareIssuances :
        ( /\ i1.orgId = i2.orgId /\ i1.shareClassId = i2.shareClassId
          /\ i1.certNumber = i2.certNumber /\ i1.certNumber # NONE )
        => i1 = i2

(***************************************************************************)
(* C12: when a request to add a person is answered with an error, none of  *)
(* the rows its handler wrote remains: no address, no person and no role   *)
(* assignment of that person.                                              *)
(***************************************************************************)
C12_AddPersonAtomic ==
    [][\A r \in inflight :
          (r.route = "people" /\ Answered(r) /\ resp'.status \notin {200, 201})
          => ( /\ \A a \in addresses' : a.id # r.loc.addressId
               /\ \A p \in people' : p.id # r.row
               /\ \A x \in personOnOrgs' : x.personId # r.row )]_vars

(***************************************************************************)
(* C13: in the list of the people of an organization, a person added with *)
(* two or more roles by a request that succeeded appears exactly once,     *)
(* with role assignments that are its own in that organization.            *)
(***************************************************************************)
C13_PersonListedOnce ==
    \A e \in BagToSet(listing.rows) :
        (Cardinality(e.roles) >= 2 /\ Audited({"ADD_PERSON"}, e.person.id))
        => /\ CopiesIn(e, listing.rows) = 1
           /\ e.roles \subseteq {x \in personOnOrgs : /\ x.personId = e.person.id
                                                      /\ x.orgId = listing.orgId}

(***************************************************************************)
(* C14: the list of the people of an organization holds only people with a *)
(* role assignment in that organization, and every role assignment in it   *)
(* is one of the listed person in that organization.                       *)
(***************************************************************************)
C14_ListScopedToOrg ==
    \A e \in BagToSet(listing.rows) :
        /\ \E x \in personOnOrgs : x.personId = e.person.id /\ x.orgId = listing.orgId
        /\ \A x \in e.roles : x.orgId = listing.orgId /\ x.personId = e.person.id

C14_Witness ==
    \E e \in BagToSet(listing.rows) :
        /\ e.roles # {}
        /\ \E x \in personOnOrgs : x.personId = e.person.id /\ x.orgId # listing.orgId

(***************************************************************************)
(* C15: the audit log is append-only: no step of a route or of the storage *)
(* interface changes or removes an audit log row.                          *)
(***************************************************************************)
C15_AuditAppendOnly == [][auditLogs \subseteq auditLogs']_vars

C15_Witness ==
    /\ auditLogs # {} /\ deleteResult.ok
    /\ \E id \in 1..(nextId.orgs - 1) : id \notin Ids(orgs)

(***************************************************************************)
(* C16: the actorId of every audit log row, and the createdById of every   *)
(* new organization, is the caller of the request that wrote the row.      *)
(***************************************************************************)
C16_ActorIsCaller ==
    [][/\ \A a \in auditLogs' \ auditLogs :
            \E r \in inflight : Steps(r) /\ a.actorId = r.caller
       /\ \A o \in orgs' :
            o.id \notin Ids(orgs)
            => \E r \in inflight : Steps(r) /\ o.createdById = r.caller]_vars

(***************************************************************************)
(* C17: the organization row that POST /api/orgs inserts refers, for each  *)
(* of the four address slots present in the body, to an address row with   *)
(* the submitted line1, city, region, country and postal.                  *)
(***************************************************************************)
SameAddress(a, payload) ==
    /\ a.line1 = payload.line1 /\ a.city = payload.city
    /\ a.region = payload.region /\ a.country = payload.country
    /\ a.postal = payload.postal

Materialized(payload, addressId, rows) ==
    Present(payload)
    => \E a \in rows : a.id = addressId /\ SameAddress(a, payload[1])

C17_AddressesMaterialized ==
    [][\A r \in inflight :
          (r.route = "orgs" /\ Steps(r) /\ orgs' # orgs)
          => \A o \in orgs' \ orgs :
                /\ Materialized(r.body.registeredOffice, o.registeredOfficeId, addresses')
                /\ Materialized(r.body.recordsOffice, o.recordsOfficeId, addresses')
                /\ Materialized(r.body.mailingAddress, o.mailingAddressId, addresses')
                /\ Materialized(r.body.authRepAddress, o.authRepAddressId, addresses')]_vars

(***************************************************************************)
(* C18: no step changes or removes an address row, and the update of an    *)
(* organization by PUT /api/orgs/:id points each of the four address slots *)
(* present in the body to a new address row with the submitted content and *)
(* leaves the reference of every other slot as it was.                     *)
(***************************************************************************)
Repointed(payload, oldId, newId, rows) ==
    IF Present(payload)
    THEN newId # oldId /\ Materialized(payload, newId, rows)
    ELSE newId = oldId

C18_UpdateRepointsAddresses ==
    [][/\ addresses \subseteq addresses'
       /\ \A r \in inflight :
            (r.route = "orgs/:id" /\ Steps(r) /\ orgs' # orgs)
            => \A old \in orgs, new \in orgs' :
                  (old.id = r.orgId /\ new.id = r.orgId)
                  => /\ Repointed(r.body.registeredOffice, old.registeredOfficeId,
                                  new.registeredOfficeId, addresses')
                     /\ Repointed(r.body.recordsOffice, old.recordsOfficeId,
                                  new.recordsOfficeId, addresses')
                     /\ Repointed(r.body.mailingAddress, old.mailingAddressId,
                                  new.mailingAddressId, addresses')
                     /\ Repointed(r.body.authRepAddress, old.authRepAddressId,
                                  new.authRepAddressId, addresses')]_vars

(***************************************************************************)
(* C19: POST /api/orgs with a body that lacks name or jurisdiction is      *)
(* answered, in the step that handles it, with an error status other than  *)
(* the one of a failed storage call (500), and that step changes no table. *)
(***************************************************************************)
C19_ValidationErrorDistinct ==
    [][\A r \in inflight :
          (At(r, "orgs", "start") /\ Steps(r) /\ ~ insertOrgSchemaOk(r.body))
          => ( /\ Answered(r)
               /\ resp'.status >= 400 /\ resp'.status # 500
               /\ UNCHANGED tables )]_vars

(***************************************************************************)
(* C20: a request under the id of no organization (an update of the        *)
(* organization or a mutation of one of its sub-resources) is answered     *)
(* with status 404 in the step that handles it, and that step changes no   *)
(* table.                                                                  *)
(***************************************************************************)
C20_UnknownOrgNotFound ==
    [][\A r \in inflight :
          ( /\ r.route # "orgs" /\ r.pc = "start" /\ Steps(r)
            /\ r.orgId \notin Ids(orgs) )
          => ( /\ Answered(r) /\ resp'.status = 404
               /\ UNCHANGED tables )]_vars

(***************************************************************************)
(* C21: every role assignment row has a role among Director, Officer and   *)
(* Shareholder: POST /api/orgs/:orgId/people with another role string      *)
(* stores no row with that role.                                           *)
(***************************************************************************)
C21_RoleInSet ==
    \A x \in personOnOrgs : x.role \in {"Director", "Officer", "Shareholder"}

(***************************************************************************)
(* C22: every share issuance row has a quantity greater than zero.         *)
(***************************************************************************)
C22_QuantityPositive ==
    \A i \in shareIssuances : i.quantity > 0

(***************************************************************************)
(* C23: every role assignment row inserted by a step of                    *)
(* POST /api/orgs/:orgId/people has a start date that is not null.         *)
(***************************************************************************)
C23_StartDateSet ==
    [][\A x \in personOnOrgs' \ personOnOrgs : x.startDate # NULL]_vars

(***************************************************************************)
(* C24: when POST /api/orgs/:orgId/people is answered with 201, the person *)
(* it created has at least one role assignment row in the organization of  *)
(* the path.                                                               *)
(***************************************************************************)
C24_PersonHasRole ==
    [][\A r \in inflight :
          (r.route = "people" /\ Answered(r) /\ resp'.status = 201)
          => \E x \in personOnOrgs' :
                x.personId = r.row /\ x.orgId = r.orgId]_vars

(***************************************************************************)
(* C28: every row that a step of an organization-scoped route inserts (a   *)
(* role assignment, a share class, a share issuance, a share transfer)     *)
(* carries the orgId of the path, a role assignment also the id of the     *)
(* person the request created, and the audit row of the request carries    *)
(* the orgId of the path, whatever orgId or personId the body carries.     *)
(***************************************************************************)
ScopedRoutes ==
    {"people", "share-classes", "issuances", "corporate-shareholders", "transfers"}

C28_PathOrgIdWins ==
    [][\A r \in inflight :
          (Steps(r) /\ r.route \in ScopedRoutes)
          => ( /\ \A x \in personOnOrgs' \ personOnOrgs :
                     x.orgId = r.orgId /\ x.personId = r.row
               /\ \A x \in shareClasses' \ shareClasses : x.orgId = r.orgId
               /\ \A x \in shareIssuances' \ shareIssuances : x.orgId = r.orgId
               /\ \A x \in shareTransfers' \ shareTransfers : x.orgId = r.orgId
               /\ \A x \in auditLogs' \ auditLogs : x.orgId = r.orgId )]_vars

C28_Witness ==
    /\ \E r \in inflight, c \in shareClasses :
          /\ At(r, "share-classes", "createAuditLog")
          /\ r.body.orgId \notin {NULL, r.orgId}
          /\ c.id = r.row /\ c.orgId = r.orgId
    /\ \E a \in auditLogs, t \in shareTransfers :
          a.action = "TRANSFER_SHARES" /\ a.ref = t.id /\ a.orgId = t.orgId

(***************************************************************************)
(* C25: when the people of an organization are listed, every row of the    *)
(* cap table computed from the answer shows the net quantity the person    *)
(* holds in the organization according to the share issuances and          *)
(* transfers, and that quantity's share of the total of all holders: a     *)
(* sole holder is shown at 100%.                                           *)
(***************************************************************************)
LedgerHolding(orgId, personId) ==
    SumQuantity({i \in shareIssuances :
                    i.orgId = orgId /\ i.shareholderId = personId})
    + SumQuantity({t \in shareTransfers :
                    t.orgId = orgId /\ t.toPersonId = personId})
    - SumQuantity({t \in shareTransfers :
                    t.orgId = orgId /\ t.fromPersonId = personId})

LedgerTotal(orgId) ==
    SumQuantity({i \in shareIssuances : i.orgId = orgId})

C25_CapTableFromLedger ==
    [][\A r \in inflight :
          (r.route = "people:list" /\ Answered(r) /\ resp'.status = 200)
          => \A row \in CapTableRows(listing'.rows) :
                /\ row.shares = LedgerHolding(r.orgId, row.personId)
                /\ row.ownership =
                      formatPercentage(LedgerHolding(r.orgId, row.personId),
                                       LedgerTotal(r.orgId))]_vars

(***************************************************************************)
(* C26: after a call of deleteOrg for an organization, no role assignment  *)
(* and no share issuance with the orgId of that organization remains, and  *)
(* every person and address row that existed before the call still exists. *)
(***************************************************************************)
C26_DeleteOrgCascades ==
    [][\A id \in Ids(orgs) :
          (deleteResult' # deleteResult /\ deleteResult'.id = id)
          => ( /\ \A x \in personOnOrgs' : x.orgId # id
               /\ \A i \in shareIssuances' : i.orgId # id
               /\ people \subseteq people'
               /\ addresses \subseteq addresses' )]_vars

PlaceholderCodes == {documentTemplates[x].code : x \in DOMAIN documentTemplates}

============================================================================
